---------------------------- MODULE Spec2Model ----------------------------
(***************************************************************************)
(* Model of src/src/data/gtrends_extract.py: the batching / retry driver   *)
(* get_interest_over_time and the utilities it is built from (list_batch,  *)
(* df_to_csv, sleep_countdown, handle_query_results, query_googletrends,   *)
(* get_query_date_index).                                                  *)
(*                                                                         *)
(* Two state machines share the module:                                    *)
(*   Spec / FairSpec : one run of get_interest_over_time                   *)
(*   UtilSpec        : the utilities list_batch, sleep_countdown and       *)
(*                     df_to_csv applied to arguments drawn in UtilInit,   *)
(*                     beside the runs of Spec, which apply them too       *)
(*                                                                         *)
(* Data representation                                                     *)
(*   keyword, date, search interest : integers                             *)
(*   DataFrame : [columns : Seq(STRING), rows : Seq(Seq(Int))]             *)
(*   CSV file  : [exists : BOOLEAN, lines : Seq(line)], a line being       *)
(*               [header : BOOLEAN, names : Seq(STRING), cells : Seq(Int)] *)
(*   raw API answer to interest_over_time():                               *)
(*               [kind : "raise" | "df", index : Seq(date)]                *)
(*               (index = << >> is the empty DataFrame)                    *)
(***************************************************************************)
EXTENDS Integers, Sequences, FiniteSets, TLC

\* ------------------------------------------------------------------ bounds
MaxKeywords == 6     \* driver: keyword_list is <<1, ..., L>>, L \in 0..MaxKeywords
MaxRetries  == 2     \* driver: max_retries \in 0..MaxRetries
MaxDates    == 1     \* length of the date index the provider returns
MaxLen      == 6     \* utilities: longest list handed to list_batch
MaxN        == 5     \* utilities: largest batch size n
MaxDuration == 7     \* utilities: longest sleep_countdown duration
MaxStep     == 3     \* utilities: largest print_step
MaxCalls    == 3     \* utilities: df_to_csv calls on one filepath
MaxRows     == 2     \* utilities: rows of a frame handed to df_to_csv

\* ------------------------------------------------------- program constants
BatchSize       == 5    \* list_batch(lst=keyword_list, n=5)
TimeoutStep     == 3    \* timeout += 3
TimeoutSpread   == 3    \* randint(timeout-3, timeout+3)
DefaultTimeout  == 20   \* timeout=20
DefaultStep     == 2    \* print_step=2

\* ---------------------------------------------------------------- helpers
Min(a, b) == IF a <= b THEN a ELSE b

CeilDiv(a, b) == (a + b - 1) \div b


\* ------------------------------------------------------- data constructors
DataFrame(columns, rows) == [columns |-> columns, rows |-> rows]

NoFile == [exists |-> FALSE, lines |-> << >>]

HeaderLine(df) == [header |-> TRUE, names |-> df.columns, cells |-> << >>]

RowLines(df) ==
    [i \in 1..Len(df.rows) |-> [header |-> FALSE, names |-> << >>, cells |-> df.rows[i]]]

\* the search interest the provider reports for keyword k at date d
Interest(k, d) == k + d

\* ------------------------------------------------- list_flatten, list_batch
RECURSIVE list_flatten(_)
list_flatten(nested_list) ==
    IF nested_list = << >> THEN << >>
    ELSE Head(nested_list) \o list_flatten(Tail(nested_list))

\* variant: the slice stops one element early, lst[a:b - 1]
PySliceShort(lst, a, b) == SubSeq(lst, a + 1, Min(b - 1, Len(lst)))

\* lst[a:b] for 0 <= a <= b (0-based, end exclusive, clipped to the list)
PySlice(lst, a, b) == SubSeq(lst, a + 1, Min(b, Len(lst)))

\* for i in range(i, len(lst), n): yield lst[i:i + n]
RECURSIVE n_batch_from(_, _, _)
n_batch_from(lst, n, i) ==
    IF i < Len(lst)
    THEN <<PySlice(lst, i, i + n)>> \o n_batch_from(lst, n, i + n)
    ELSE << >>

n_batch(lst, n) == n_batch_from(lst, n, 0)

list_batch(lst, n) == n_batch(lst, n)

\* ---------------------------------------------------------------- df_to_csv
\* DataFrame.to_csv(path, index=False, header=header, mode=mode)
to_csv(df, file, header, mode) ==
    [exists |-> TRUE,
     lines  |-> (IF mode = "a" THEN file.lines ELSE << >>)
                \o (IF header THEN <<HeaderLine(df)>> ELSE << >>)
                \o RowLines(df)]

\* variant: the append forgets header=False
df_to_csv_always_header(df, file) ==
    IF ~file.exists
    THEN to_csv(df, file, TRUE, "w")
    ELSE to_csv(df, file, TRUE, "a")

df_to_csv(df, file) ==
    IF ~file.exists
    THEN to_csv(df, file, TRUE, "w")
    ELSE to_csv(df, file, FALSE, "a")

\* ---------------------------------------------------------- sleep_countdown
\* for i in range(i, 0, -print_step): sleep(print_step); write(i - print_step)
RECURSIVE countdown_from(_, _)
countdown_from(i, print_step) ==
    IF i > 0
    THEN <<i - print_step>> \o countdown_from(i - print_step, print_step)
    ELSE << >>

\* what one call does: the values written to stdout and the seconds slept
sleep_countdown(duration, print_step) ==
    LET printed == countdown_from(duration, print_step)
    IN  [duration |-> duration,
         print_step |-> print_step,
         printed  |-> printed,
         slept    |-> print_step * Len(printed)]

\* ----------------------------------------------------- handle_query_results
\* the module never binds the name np: its imports are pandas, logging, os,
\* datetime, TrendReq, sys, sleep and randint
NumpyBound == FALSE

\* pd.melt(..., id_vars=['date'], var_name='keyword', value_name='search_interest')
RECURSIVE melt(_, _)
melt(df_query_result, keywords) ==
    IF keywords = << >> THEN << >>
    ELSE [i \in 1..Len(df_query_result.index) |->
             <<df_query_result.index[i], Head(keywords),
               Interest(Head(keywords), df_query_result.index[i])>>]
         \o melt(df_query_result, Tail(keywords))

\* np.zeros((query_length*len(keywords), 3)) with the date and keyword columns replaced
RECURSIVE df_zeros_rows(_, _)
df_zeros_rows(keywords, date_index) ==
    IF keywords = << >> THEN << >>
    ELSE [i \in 1..Len(date_index) |-> <<date_index[i], Head(keywords), 0>>]
         \o df_zeros_rows(Tail(keywords), date_index)

LongColumns == <<"date", "keyword", "search_interest">>

NoFrame == DataFrame(<< >>, << >>)

\* result of a call: the exception it raised ("" for none) and the value returned
Returned(value) == [raised |-> "", value |-> value]
Raised(exc)     == [raised |-> exc, value |-> << >>]

handle_query_results(df_query_result, keywords, date_index) ==
    IF Len(df_query_result.index) # 0
    THEN Returned(DataFrame(LongColumns, melt(df_query_result, keywords)))
    ELSE IF NumpyBound
         THEN Returned(DataFrame(LongColumns, df_zeros_rows(keywords, date_index)))
         ELSE Raised("NameError")

\* ------------------------------------------------------- query_googletrends
\* `answer` is what build_payload / interest_over_time do on this call
query_googletrends(keywords, date_index, answer) ==
    IF answer.kind = "raise"
    THEN Raised("ResponseError")
    ELSE handle_query_results(answer, keywords, date_index)

\* ----------------------------------------------------- get_query_date_index
\* variant: the failure is swallowed and an empty index returned, as
\* get_related_queries does with its query
get_query_date_index_swallow(answer) ==
    IF answer.kind = "raise"
    THEN Returned(<< >>)
    ELSE Returned(answer.index)

\* df.rename_axis('date').reset_index().date : the dates of the provider's answer
get_query_date_index(answer) ==
    IF answer.kind = "raise"
    THEN Raised("ResponseError")
    ELSE Returned(answer.index)

\* ------------------------------------------------------------ the provider
RaiseAnswer == [kind |-> "raise", index |-> << >>]

EmptyAnswer == [kind |-> "df", index |-> << >>]

DataAnswer(index) == [kind |-> "df", index |-> index]

\* what the provider may do on the date-index query (keywords pizza, lufthansa)
DateAnswers ==
    {RaiseAnswer} \cup {DataAnswer([i \in 1..n |-> i]) : n \in 1..MaxDates}

\* what the provider may do on a batch query of the same timeframe
BatchAnswers(index) == {RaiseAnswer, EmptyAnswer, DataAnswer(index)}

AnswerKind(answer) ==
    IF answer.kind = "raise" THEN "raise"
    ELSE IF answer.index = << >> THEN "empty" ELSE "data"

\* =========================================================================
\* get_interest_over_time
\* =========================================================================
VARIABLES
    pc,            \* "idle" | "start" | "loop" | "done" | "raised"
    keyword_list,  \* argument
    max_retries,   \* argument
    timeout,       \* argument, then the local the loop increments
    date_index,    \* local
    kw_batches,    \* local
    bi,            \* position of `for kw_batch in kw_batches` (1-based)
    attempt,       \* position of `for attempt in range(max_retries)`
    results_file,  \* the file at `filepath`
    unsucc_file,   \* the file at `filepath_unsuccessful`
    \* history, read by the properties only
    timeout0,      \* the timeout argument as passed
    files0,        \* the two files as they were at the call
    date_calls,    \* outcome of every get_query_date_index call, in order
    outcomes,      \* per batch: whether each query_googletrends call raised
    hist,          \* the last two attempts: answer, base timeout, delay, sleep
    u              \* UtilSpec: the utility under call, its arguments and result

dvars == <<pc, keyword_list, max_retries, timeout, date_index, kw_batches, bi,
           attempt, results_file, unsucc_file, timeout0, files0, date_calls,
           outcomes, hist>>

vars == <<dvars, u>>

\* pd.DataFrame(kw_batch): one column labelled 0, one row per keyword
KwFrame(kw_batch) == DataFrame(<<"0">>, [i \in 1..Len(kw_batch) |-> <<kw_batch[i]>>])

\* a results file left by an earlier run
OldResults == df_to_csv(DataFrame(LongColumns, <<<<1, 1, 7>>>>), NoFile)

\* an unsuccessful-queries file left by an earlier run
OldUnsucc == df_to_csv(KwFrame(<<1>>), NoFile)

\* random.randint(a, b): any integer of a..b
randint(a, b) == a..b

\* range(max_retries)
RetryRange(n) == 0..(n - 1)

\* the timeout argument: the default and one small enough for randint to go negative
SampleTimeouts == {2, DefaultTimeout}

\* variants: the timeout lowered, or left as it is, on failure
NextTimeoutLower(t) == t - TimeoutStep
NextTimeoutSame(t) == t

\* timeout += 3
NextTimeout(t) == t + TimeoutStep

\* variants: no break after a success; an else clause that runs after a break
LoopExitNoBreak(b, a, n) == [bi |-> b, attempt |-> a + 1]
LoopExitRunsElse(b, a, n) == [bi |-> b, attempt |-> n]

\* where `break` leaves the two loops: the for-else clause is skipped and the
\* outer loop moves to the next batch
LoopExit(b, a, n) == [bi |-> b + 1, attempt |-> 0]

\* the harness before any call: no operation chosen
UtilIdle ==
    [op |-> "none", done |-> FALSE,
     lst |-> << >>, n |-> 0, batches |-> << >>,
     duration |-> 0, print_step |-> 0, sleep |-> sleep_countdown(0, 0),
     file0 |-> NoFile, file |-> NoFile, frames |-> << >>]

Init ==
    /\ pc = "start"
    /\ \E len \in 0..MaxKeywords : keyword_list = [i \in 1..len |-> i]
    /\ max_retries \in 0..MaxRetries
    /\ timeout \in SampleTimeouts
    /\ timeout0 = timeout
    /\ date_index = << >>
    /\ kw_batches = << >>
    /\ bi = 0
    /\ attempt = 0
    /\ files0 \in {[results |-> NoFile, unsucc |-> NoFile],
                   [results |-> OldResults, unsucc |-> OldUnsucc]}
    /\ results_file = files0.results
    /\ unsucc_file = files0.unsucc
    /\ date_calls = << >>
    /\ outcomes = << >>
    /\ hist = << >>
    /\ u = UtilIdle

\* lines 281-284: the date-index query and the batching
Start ==
    /\ pc = "start"
    /\ \E answer \in DateAnswers :
        LET r == get_query_date_index(answer) IN
        /\ date_calls' = Append(date_calls, AnswerKind(answer))
        /\ IF r.raised # ""
           THEN /\ pc' = "raised"
                /\ UNCHANGED <<date_index, kw_batches, bi, outcomes>>
           ELSE /\ pc' = "loop"
                /\ date_index' = r.value
                /\ kw_batches' = list_batch(keyword_list, BatchSize)
                /\ bi' = 1
                /\ outcomes' = [b \in 1..Len(list_batch(keyword_list, BatchSize)) |-> << >>]
    /\ attempt' = 0
    /\ UNCHANGED <<keyword_list, max_retries, timeout, results_file, unsucc_file,
                   timeout0, files0, hist, u>>

\* lines 289-306: one pass of the retry loop for the current batch
Attempt ==
    /\ pc = "loop"
    /\ bi <= Len(kw_batches)
    /\ attempt \in RetryRange(max_retries)
    /\ \E answer \in BatchAnswers(date_index),
          timeout_randomized \in randint(timeout - TimeoutSpread, timeout + TimeoutSpread) :
        LET kw_batch == kw_batches[bi]
            r        == query_googletrends(kw_batch, date_index, answer)
            failed   == r.raised # ""
            slept    == sleep_countdown(timeout_randomized, DefaultStep)
            exit     == LoopExit(bi, attempt, max_retries)
            rec      == [batch |-> bi, answer |-> AnswerKind(answer), base |-> timeout,
                         delay |-> timeout_randomized, failed |-> failed,
                         sleep |-> slept]
        IN
        /\ outcomes' = [outcomes EXCEPT ![bi] = Append(@, failed)]
        /\ hist' = IF hist = << >> THEN <<rec>> ELSE <<hist[Len(hist)], rec>>
        /\ IF failed
           THEN /\ timeout' = NextTimeout(timeout)
                /\ attempt' = attempt + 1
                /\ UNCHANGED <<bi, results_file>>
           ELSE /\ results_file' = df_to_csv(r.value, results_file)
                /\ bi' = exit.bi
                /\ attempt' = exit.attempt
                /\ UNCHANGED timeout
    /\ UNCHANGED <<pc, keyword_list, max_retries, date_index, kw_batches,
                   unsucc_file, timeout0, files0, date_calls, u>>

\* lines 309-311: the retry loop ran out without a break
Exhausted ==
    /\ pc = "loop"
    /\ bi <= Len(kw_batches)
    /\ attempt \notin RetryRange(max_retries)
    /\ unsucc_file' = df_to_csv(KwFrame(kw_batches[bi]), unsucc_file)
    /\ bi' = bi + 1
    /\ attempt' = 0
    /\ UNCHANGED <<pc, keyword_list, max_retries, timeout, date_index, kw_batches,
                   results_file, timeout0, files0, date_calls, outcomes, hist, u>>

\* the outer loop is over: the function returns None
Return ==
    /\ pc = "loop"
    /\ bi > Len(kw_batches)
    /\ pc' = "done"
    /\ UNCHANGED <<keyword_list, max_retries, timeout, date_index, kw_batches, bi,
                   attempt, results_file, unsucc_file, timeout0, files0, date_calls,
                   outcomes, hist, u>>

Next == Start \/ Attempt \/ Exhausted \/ Return

Spec == Init /\ [][Next]_vars

\* the runs with the default timeout and no file left by an earlier run
FairInit ==
    /\ Init
    /\ timeout = DefaultTimeout
    /\ ~files0.results.exists

\* the interpreter runs the function to its end: no step waits on anything
FairSpec == FairInit /\ [][Next]_vars /\ WF_vars(Next)


\* =========================================================================
\* The utilities on their own
\* =========================================================================
\* lists of keywords, repeated keywords included
Lists == UNION {[1..len -> {1, 2}] : len \in 0..MaxLen}

\* rows a long-format frame may hold
SampleRows == {<<1, 1, 0>>, <<2, 1, 5>>}

\* the frames handed to df_to_csv: long-format results of 0..MaxRows rows and
\* the one-column frame of a batch's keywords
Frames ==
    {DataFrame(LongColumns, rows) :
        rows \in UNION {[1..len -> SampleRows] : len \in 0..MaxRows}}
    \cup {KwFrame(<<1, 2>>)}

DriverIdle ==
    /\ pc = "idle"
    /\ keyword_list = << >>
    /\ max_retries = 0
    /\ timeout = DefaultTimeout
    /\ timeout0 = DefaultTimeout
    /\ date_index = << >>
    /\ kw_batches = << >>
    /\ bi = 0
    /\ attempt = 0
    /\ files0 = [results |-> NoFile, unsucc |-> NoFile]
    /\ results_file = NoFile
    /\ unsucc_file = NoFile
    /\ date_calls = << >>
    /\ outcomes = << >>
    /\ hist = << >>

UtilInit ==
    /\ DriverIdle
    /\ \/ \E lst \in Lists, n \in 1..MaxN :
            u = [UtilIdle EXCEPT !.op = "list_batch", !.lst = lst, !.n = n]
       \/ \E duration \in 0..MaxDuration, print_step \in 1..MaxStep :
            u = [UtilIdle EXCEPT !.op = "sleep_countdown", !.duration = duration,
                                 !.print_step = print_step]
       \/ \E file \in {NoFile, OldResults} :
            u = [UtilIdle EXCEPT !.op = "df_to_csv", !.file0 = file, !.file = file]

CallListBatch ==
    /\ u.op = "list_batch"
    /\ ~u.done
    /\ u' = [u EXCEPT !.done = TRUE, !.batches = list_batch(u.lst, u.n)]
    /\ UNCHANGED dvars

CallSleepCountdown ==
    /\ u.op = "sleep_countdown"
    /\ ~u.done
    /\ u' = [u EXCEPT !.done = TRUE, !.sleep = sleep_countdown(u.duration, u.print_step)]
    /\ UNCHANGED dvars

\* one more df_to_csv call on the same filepath
CallDfToCsv ==
    /\ u.op = "df_to_csv"
    /\ Len(u.frames) < MaxCalls
    /\ \E df \in Frames :
        u' = [u EXCEPT !.done = TRUE,
                       !.file = df_to_csv(df, u.file),
                       !.frames = Append(u.frames, df)]
    /\ UNCHANGED dvars

UtilNext == CallListBatch \/ CallSleepCountdown \/ CallDfToCsv \/ Next

UtilSpec == (UtilInit \/ Init) /\ [][UtilNext]_vars

\* =========================================================================
\* Properties of get_interest_over_time
\* =========================================================================
Batches == 1..Len(kw_batches)

\* the batch's pass through the retry loop and its for-else clause is over
Completed(b) == pc = "done" \/ (pc = "loop" /\ b < bi)

\* data rows of a file whose column `col` holds keyword k
KwRows(file, col, k) ==
    Cardinality({i \in DOMAIN file.lines :
                    /\ ~file.lines[i].header
                    /\ Len(file.lines[i].cells) >= col
                    /\ file.lines[i].cells[col] = k})

\* the run has appended batch b's result to the results file exactly t times
ResultsAppended(b, t) ==
    \A i \in DOMAIN kw_batches[b] :
        KwRows(results_file, 2, kw_batches[b][i])
          - KwRows(files0.results, 2, kw_batches[b][i]) = t * Len(date_index)

\* the run has appended batch b's keywords to the unsuccessful file exactly t times
UnsuccAppended(b, t) ==
    \A i \in DOMAIN kw_batches[b] :
        KwRows(unsucc_file, 1, kw_batches[b][i])
          - KwRows(files0.unsucc, 1, kw_batches[b][i]) = t

\* one of the batch's first max_retries query attempts succeeded
Succeeded(b) ==
    \E i \in 1..Min(Len(outcomes[b]), max_retries) : ~outcomes[b][i]

\* max_retries query attempts were made for the batch and all of them failed
AllFailed(b) ==
    /\ Len(outcomes[b]) >= max_retries
    /\ \A i \in 1..max_retries : outcomes[b][i]

OutcomeA(b) == ResultsAppended(b, 1) /\ UnsuccAppended(b, 0)

OutcomeB(b) == UnsuccAppended(b, 1) /\ ResultsAppended(b, 0)

\* C1: every batch whose turn is over ended in exactly one of (a) its result
\* appended once to the results file, iff one of its first max_retries
\* attempts succeeded, or (b) its keywords appended once to the
\* unsuccessful-queries file, iff all max_retries attempts failed; when the
\* run is over this holds of every batch, also of those after a batch that
\* ended in (b).
C1_ExactlyOneOutcome ==
    \A b \in Batches :
        Completed(b) =>
            /\ OutcomeA(b) # OutcomeB(b)
            /\ OutcomeA(b) <=> Succeeded(b)
            /\ OutcomeB(b) <=> AllFailed(b)

\* a finished run of two batches: the first ran out of retries, the second
\* succeeded on a retry
C1_Witness ==
    /\ pc = "done"
    /\ Len(kw_batches) = 2
    /\ max_retries = 2
    /\ outcomes[1] = <<TRUE, TRUE>>
    /\ outcomes[2] = <<TRUE, FALSE>>

RECURSIVE SeqCount(_, _)
SeqCount(s, x) ==
    IF s = << >> THEN 0
    ELSE (IF Head(s) = x THEN 1 ELSE 0) + SeqCount(Tail(s), x)

RECURSIVE SumOver(_, _)
SumOver(f, n) == IF n = 0 THEN 0 ELSE f[n] + SumOver(f, n - 1)

\* query_googletrends calls made so far, and those of them that raised
TotalQueries == SumOver([b \in Batches |-> Len(outcomes[b])], Len(kw_batches))

TotalFailed == SumOver([b \in Batches |-> SeqCount(outcomes[b], TRUE)], Len(kw_batches))

Terminated == pc \in {"done", "raised"}

C2_Bounded ==
    /\ pc \in {"loop", "done"} => Len(kw_batches) = CeilDiv(Len(keyword_list), 5)
    /\ \A b \in Batches :
        /\ Len(outcomes[b]) <= max_retries
        /\ \A i \in 1..(Len(outcomes[b]) - 1) : outcomes[b][i]
        /\ Completed(b) =>
              Len(outcomes[b]) =
                  IF \E i \in DOMAIN outcomes[b] : ~outcomes[b][i]
                  THEN Min(CHOOSE i \in DOMAIN outcomes[b] : ~outcomes[b][i], max_retries)
                  ELSE max_retries
    /\ TotalQueries <= CeilDiv(Len(keyword_list), 5) * max_retries

\* C2: a batch is queried at most max_retries times and never again after
\* its first success, so its attempts number min(position of the first
\* success, max_retries); the run makes at most ceil(len/5) * max_retries
\* batch queries and always terminates.
C2_BoundedAndTerminates == [](C2_Bounded) /\ <>Terminated

\* a finished run in which one batch used all its retries and the other
\* stopped at its first success although retries were left
C2_Witness ==
    /\ pc = "done"
    /\ Len(kw_batches) = 2
    /\ max_retries = 2
    /\ outcomes[1] = <<FALSE>>
    /\ outcomes[2] = <<TRUE, TRUE>>

LastAttempt == hist[Len(hist)]

Abs(x) == IF x < 0 THEN 0 - x ELSE x

\* C7: the base timeout is the initial timeout plus 3 per failed query so far,
\* over all batches; a success leaves it as it was; every delay passed to
\* sleep_countdown is within 3 of the base timeout the attempt started with.
C7_TimeoutAccumulates ==
    /\ timeout = timeout0 + 3 * TotalFailed
    /\ timeout >= timeout0
    /\ hist # << >> =>
          /\ Abs(LastAttempt.delay - LastAttempt.base) <= 3
          /\ LastAttempt.sleep.duration = LastAttempt.delay
          /\ LastAttempt.base = timeout - (IF LastAttempt.failed THEN 3 ELSE 0)

\* the second batch starts with the failures of the first in its timeout
C7_Witness ==
    /\ pc = "loop"
    /\ Len(kw_batches) = 2
    /\ outcomes[1] = <<TRUE, TRUE>>
    /\ outcomes[2] = <<FALSE>>
    /\ LastAttempt.batch = 2
    /\ LastAttempt.base = timeout0 + 6
    /\ LastAttempt.delay = timeout0 + 3

\* C9: when the date-index query raises, the run ends there: it is not
\* retried, no batch is queried, and both files are as they were.
C9_DateIndexFailurePropagates ==
    (\E i \in DOMAIN date_calls : date_calls[i] = "raise") =>
        /\ pc = "raised"
        /\ Len(date_calls) = 1
        /\ outcomes = << >>
        /\ hist = << >>
        /\ results_file = files0.results
        /\ unsucc_file = files0.unsucc

C9_Witness ==
    /\ pc = "raised"
    /\ date_calls = <<"raise">>
    /\ keyword_list # << >>
    /\ max_retries > 0
    /\ ~results_file.exists


PrevAttempt == hist[1]

HasPrev == Len(hist) = 2

\* C5 as stated: the delay slept after a failed attempt is never shorter
\* than the delay slept after the attempt just before it in the run.
C5_DelayNeverShorter ==
    (HasPrev /\ LastAttempt.failed) => LastAttempt.delay >= PrevAttempt.delay

\* C5 (amended): what a failure escalates is the base timeout the delay is
\* drawn around, not the delay itself: at a failed attempt the base timeout
\* is never below that of the attempt before it (3 above it when that one
\* failed), the base is 3 higher after the failed attempt, and the delay
\* slept is at most 6 shorter than the one before (at most 3 shorter when
\* the attempt before failed too).
C5_BaseEscalates ==
    /\ (hist # << >> /\ LastAttempt.failed) => timeout = LastAttempt.base + 3
    /\ (HasPrev /\ LastAttempt.failed) =>
          /\ LastAttempt.base >= PrevAttempt.base
          /\ PrevAttempt.failed => LastAttempt.base = PrevAttempt.base + 3
          /\ LastAttempt.delay >= PrevAttempt.delay - 6
          /\ PrevAttempt.failed => LastAttempt.delay >= PrevAttempt.delay - 3

\* a failed attempt that slept 3 less than the failed attempt before it
C5_Witness ==
    /\ HasPrev
    /\ PrevAttempt.failed
    /\ LastAttempt.failed
    /\ LastAttempt.delay = PrevAttempt.delay - 3
    /\ LastAttempt.base = PrevAttempt.base + 3

\* the zero-filled long table handle_query_results documents for an empty answer
ZeroLines(kw_batch) ==
    RowLines(DataFrame(LongColumns, df_zeros_rows(kw_batch, date_index)))

EndsWith(lines, tail) ==
    /\ Len(lines) >= Len(tail)
    /\ SubSeq(lines, Len(lines) - Len(tail) + 1, Len(lines)) = tail

\* C6: a batch whose query returns an empty result is a success: the
\* zero-filled table, len(date_index) rows per keyword, is appended to the
\* results file, and the batch is neither retried nor recorded as
\* unsuccessful.
C6_EmptyAnswerIsSuccess ==
    (hist # << >> /\ LastAttempt.answer = "empty") =>
        /\ ~LastAttempt.failed
        /\ timeout = LastAttempt.base
        /\ EndsWith(results_file.lines, ZeroLines(kw_batches[LastAttempt.batch]))
        /\ ResultsAppended(LastAttempt.batch, 1)
        /\ UnsuccAppended(LastAttempt.batch, 0)
        /\ bi = LastAttempt.batch + 1


\* =========================================================================
\* Properties of the utilities
\* =========================================================================
\* what C3 says of one list_batch(lst, n) = out
BatchedRight(lst, n, out) ==
    /\ list_flatten(out) = lst
    /\ \A i \in 1..(Len(out) - 1) : Len(out[i]) = n
    /\ out # << >> => Len(out[Len(out)]) \in 1..n
    /\ \A i \in DOMAIN out : out[i] # << >>
    /\ lst = << >> => out = << >>

\* C3: list_batch(lst, n), n >= 1, cuts lst into consecutive batches whose
\* concatenation is lst, all of n elements but the last, which has 1..n,
\* none empty, none at all for the empty list; get_interest_over_time cuts
\* its keyword list with n = 5 into ceil(len/5) batches and, when it has a
\* retry to spend, queries every one of them.
C3_ListBatchPartitions ==
    /\ (u.op = "list_batch" /\ u.done) =>
          /\ BatchedRight(u.lst, u.n, u.batches)
          /\ Len(u.batches) = CeilDiv(Len(u.lst), u.n)
    /\ pc \in {"loop", "done"} =>
          /\ BatchedRight(keyword_list, 5, kw_batches)
          /\ Len(kw_batches) = CeilDiv(Len(keyword_list), 5)
    /\ (pc = "done" /\ max_retries >= 1) =>
          \A b \in Batches : Len(outcomes[b]) >= 1

\* a list with a repeated keyword cut into two full batches and a shorter one
C3_Witness ==
    /\ u.op = "list_batch"
    /\ u.done
    /\ u.lst = <<1, 2, 2, 1, 1>>
    /\ u.n = 2
    /\ u.batches = <<<<1, 2>>, <<2, 1>>, <<1>>>>

RECURSIVE AllRowLines(_)
AllRowLines(frames) ==
    IF frames = << >> THEN << >>
    ELSE RowLines(Head(frames)) \o AllRowLines(Tail(frames))

OneHeaderFirst(file) ==
    /\ file.exists
    /\ Len(file.lines) >= 1
    /\ file.lines[1].header
    /\ \A i \in 2..Len(file.lines) : ~file.lines[i].header

\* C4: after one or more df_to_csv calls on a filepath that did not exist
\* before, the file is the header of the first frame followed by the data
\* rows of all frames written, in call order: one header, in the first row,
\* no row lost; so too the two files get_interest_over_time writes.
C4_OneHeaderThenRows ==
    /\ (u.op = "df_to_csv" /\ ~u.file0.exists /\ u.frames # << >>) =>
          /\ OneHeaderFirst(u.file)
          /\ u.file.lines = <<HeaderLine(u.frames[1])>> \o AllRowLines(u.frames)
    /\ (~files0.results.exists /\ results_file.exists) =>
          /\ OneHeaderFirst(results_file)
          /\ results_file.lines[1].names = LongColumns
    /\ (~files0.unsucc.exists /\ unsucc_file.exists) =>
          /\ OneHeaderFirst(unsucc_file)
          /\ unsucc_file.lines[1].names = <<"0">>

\* three frames written to a new file, the later ones with rows of their own
C4_Witness ==
    /\ u.op = "df_to_csv"
    /\ ~u.file0.exists
    /\ Len(u.frames) = 3
    /\ u.frames[1].rows = << >>
    /\ Len(u.frames[2].rows) = 2
    /\ u.frames[3] = KwFrame(<<1, 2>>)
    /\ Len(u.file.lines) = 5

\* what C8 says of one sleep_countdown call
SleptAsAsked(sleep) ==
    /\ sleep.slept = sleep.duration
    /\ \A i \in DOMAIN sleep.printed : sleep.printed[i] >= 0
    /\ sleep.printed # << >> => sleep.printed[Len(sleep.printed)] = 0

\* C8: sleep_countdown(duration, print_step), duration >= 0 and
\* print_step >= 1, sleeps duration in total and prints remaining times
\* that are never negative and end at 0.
C8_SleepsDuration ==
    /\ (u.op = "sleep_countdown" /\ u.done) => SleptAsAsked(u.sleep)
    /\ (hist # << >> /\ LastAttempt.delay >= 0) => SleptAsAsked(LastAttempt.sleep)

=============================================================================
